---- MODULE Spec2Model ----
(***************************************************************************)
(* Model of app.py: a Dash application that plots car ratings over time   *)
(* and filters them with two cascading dropdowns (make, model).           *)
(*                                                                         *)
(* Strings are sequences of character codes, so that Python's sorted()    *)
(* (code-point order) and the substring test `a in b` are computed as     *)
(* the code computes them.  Ratings are fixed-point numbers in hundredths *)
(* (800 is 8.00); a mean is kept as an exact fraction and becomes a       *)
(* decimal only where the code formats it (:.2f, :.1f).                   *)
(***************************************************************************)
EXTENDS Integers, Sequences, FiniteSets

VARIABLES
    df,             \* the module-level frame (lines 10-11)
    selMake,        \* make-dropdown.value
    selModel,       \* model-dropdown.value
    modelOptions,   \* model-dropdown.options
    figure,         \* car-ratings-plot.figure, as displayed
    pending,        \* callbacks set off and not yet run
    trigger         \* the property whose change set them off, and the
                    \* model selection before that change

vars == <<df, selMake, selModel, modelOptions, figure, pending, trigger>>

(***************************************************************************)
(* Bounds of the model.                                                    *)
(***************************************************************************)
\* Largest number of rows of data.csv.
MaxRows == 2

\* The string 'All' (lines 57, 82, 86, 157, 158, 178-182, 193).
All == <<65, 108, 108>>
\* The separator " - " of a trace name (line 67).
Sep == <<32, 45, 32>>
\* The value of a dropdown that has no value yet (line 162: no value=).
None == <<>>

\* Makes and models that a row of data.csv may carry: "Kia", "Mini";
\* "Rio", "Rio5", "Mini" (the text of one model is contained in another
\* model's, and one in a make's).
Kia == <<75, 105, 97>>
Mini == <<77, 105, 110, 105>>
Rio == <<82, 105, 111>>
Rio5 == <<82, 105, 111, 53>>
MakeNames == {Kia, Mini}
ModelNames == {Rio, Rio5, Mini}
Years == {2020}

\* A float: a number (in hundredths) or NaN.
NaN == [kind |-> "nan", val |-> 0]
Num(v) == [kind |-> "num", val |-> v]
\* A cell of the Rating column as read_csv loads it: a number, an empty
\* cell (NaN), or text that is not a number.
Text == [kind |-> "text", val |-> 0]
RatingCells == {Num(800), Num(825), NaN, Text}

Rows == [Make : MakeNames, Model : ModelNames, Year : Years, Rating : RatingCells]
\* The datasets read_csv may load (line 10), Year parsed (line 11).
Datasets == UNION {[1..n -> Rows] : n \in 0..MaxRows}

(***************************************************************************)
(* Python and pandas primitives.                                           *)
(***************************************************************************)
Min(a, b) == IF a < b THEN a ELSE b

\* str.__lt__: code-point lexicographic order.
StrLess(a, b) ==
    \E i \in 1..(Min(Len(a), Len(b)) + 1) :
        /\ \A j \in 1..(i - 1) : a[j] = b[j]
        /\ \/ i > Len(a) /\ i <= Len(b)
           \/ i <= Len(a) /\ i <= Len(b) /\ a[i] < b[i]

\* `sub in s` for str operands.
Contains(sub, s) ==
    \E i \in 0..(Len(s) - Len(sub)) : SubSeq(s, i + 1, i + Len(sub)) = sub

\* sorted() of a collection of distinct strings.
RECURSIVE sorted(_)
sorted(S) ==
    IF S = {} THEN <<>>
    ELSE LET m == CHOOSE x \in S : \A y \in S \ {x} : StrLess(x, y)
         IN  <<m>> \o sorted(S \ {m})

\* Tuple order of group keys (Make, Model).
KeyLess(a, b) ==
    \/ StrLess(a[1], b[1])
    \/ a[1] = b[1] /\ StrLess(a[2], b[2])

RECURSIVE sortedKeys(_)
sortedKeys(S) ==
    IF S = {} THEN <<>>
    ELSE LET m == CHOOSE x \in S : \A y \in S \ {x} : KeyLess(x, y)
         IN  <<m>> \o sortedKeys(S \ {m})

\* Series.unique() as a collection (its order is lost in sorted()).
unique(d, col) == {d[i][col] : i \in 1..Len(d)}

\* Boolean-mask selection df[df[col] == value], row order kept.
SelectSeq2(d, col, value) ==
    LET Test(r) == r[col] = value IN SelectSeq(d, Test)

\* pd.to_numeric(errors='coerce') on one cell.
to_numeric(c) == IF c.kind = "text" THEN NaN ELSE c

\* The Rating column of rows, as a sequence of floats.
RatingsOf(rows) == [i \in 1..Len(rows) |-> rows[i].Rating]

RECURSIVE SumNum(_)
SumNum(cells) ==
    IF cells = <<>> THEN 0
    ELSE (IF Head(cells).kind = "num" THEN Head(cells).val ELSE 0) + SumNum(Tail(cells))

CountNum(cells) == Len(SelectSeq(cells, LAMBDA c : c.kind = "num"))

\* A mean that divides by the number of rows, missing ratings included.
mean_all_rows(cells) ==
    IF CountNum(cells) = 0
    THEN [nan |-> TRUE, num |-> 0, den |-> 1]
    ELSE [nan |-> FALSE, num |-> SumNum(cells), den |-> Len(cells)]

\* Series.mean(), skipna: an exact fraction num/den, or NaN when no value
\* is present.
mean(cells) ==
    IF CountNum(cells) = 0
    THEN [nan |-> TRUE, num |-> 0, den |-> 1]
    ELSE [nan |-> FALSE, num |-> SumNum(cells), den |-> CountNum(cells)]

MeanLess(a, b) == a.num * b.den < b.num * a.den

\* Round n/d (n >= 0, d > 0) to the nearest integer, ties to even: what
\* the 'f' format does with a value the float represents exactly.
RoundHalfEven(n, d) ==
    LET q == n \div d
        r == n % d
    IN  IF 2 * r < d THEN q
        ELSE IF 2 * r > d THEN q + 1
        ELSE IF q % 2 = 0 THEN q ELSE q + 1

\* f"{m:.2f}": the decimal shown, in hundredths ('nan' for NaN).
Format2f(m) == IF m.nan THEN NaN ELSE Num(RoundHalfEven(m.num, m.den))
\* f"{m:.1f}": the decimal shown, in tenths.
Format1f(m) == IF m.nan THEN NaN ELSE Num(RoundHalfEven(m.num, m.den * 10))

\* len(palette), line 47-48.
PaletteLen == 15

(***************************************************************************)
(* create_car_ratings_plot (lines 44-141).                                 *)
(***************************************************************************)
\* Line 45: df['Rating'] = pd.to_numeric(df['Rating'], errors='coerce'),
\* an assignment into the frame that was passed in.
CoerceRating(d) == [i \in 1..Len(d) |-> [d[i] EXCEPT !.Rating = to_numeric(@)]]

\* df.groupby(['Make', 'Model']): the distinct keys in sorted order.
GroupKeys(d) == sortedKeys({<<d[i].Make, d[i].Model>> : i \in 1..Len(d)})
GroupRows(d, name) ==
    SelectSeq(d, LAMBDA r : r.Make = name[1] /\ r.Model = name[2])

\* f"{name[0]} - {name[1]}" (lines 67, 75).
TraceName(name) == name[1] \o Sep \o name[2]

\* Lines 55, 57-59.
TraceVisible(name, selected_make) ==
    IF selected_make # All /\ name[1] # selected_make THEN "legendonly" ELSE "True"

\* Lines 56-58, 60.
TraceShowLegend(name, selected_make) ==
    ~(selected_make # All /\ name[1] # selected_make)

\* Line 53: group['Rating'].fillna(5).mul(3).
MarkerSize(c) == (IF c.kind = "num" THEN c.val ELSE 500) * 3

\* Line 75: f"{rating:.1f}".
RatingText(c) ==
    IF c.kind = "num" THEN Num(RoundHalfEven(c.val, 10)) ELSE NaN

\* Lines 62-79: the trace of the i-th group (i from 0).
Trace(i, name, group, selected_make) ==
    [name       |-> TraceName(name),
     x          |-> [k \in 1..Len(group) |-> group[k].Year],
     y          |-> RatingsOf(group),
     color      |-> i % PaletteLen,
     size       |-> [k \in 1..Len(group) |-> MarkerSize(group[k].Rating)],
     text       |-> [k \in 1..Len(group) |-> RatingText(group[k].Rating)],
     visible    |-> TraceVisible(name, selected_make),
     showlegend |-> TraceShowLegend(name, selected_make)]

\* Traces that leave out the groups of the makes that are not selected.
TracesOfMake(d, selected_make) ==
    LET keys == SelectSeq(GroupKeys(d),
                          LAMBDA k : selected_make = All \/ k[1] = selected_make)
    IN  [i \in 1..Len(keys) |->
            Trace(i - 1, keys[i], GroupRows(d, keys[i]), selected_make)]

\* Lines 52-79: one trace per group.
Traces(d, selected_make) ==
    LET keys == GroupKeys(d)
    IN  [i \in 1..Len(keys) |->
            Trace(i - 1, keys[i], GroupRows(d, keys[i]), selected_make)]

\* brand_data.groupby('Model')['Rating'].mean(): by ascending Model.
ModelAverages(brand_data) ==
    LET ms == sorted(unique(brand_data, "Model"))
    IN  [i \in 1..Len(ms) |->
            [Model |-> ms[i],
             avg   |-> mean(RatingsOf(SelectSeq2(brand_data, "Model", ms[i])))]]

\* An idxmax that returns the last of several largest values.
idxmax_last(avgs) ==
    LET ok == {i \in 1..Len(avgs) : ~avgs[i].avg.nan}
    IN  IF ok = {} THEN 0
        ELSE CHOOSE i \in ok :
                /\ \A j \in ok : ~MeanLess(avgs[i].avg, avgs[j].avg)
                /\ \A j \in ok : j > i => MeanLess(avgs[j].avg, avgs[i].avg)

\* Series.idxmax(): the position of the first largest value, NaN skipped;
\* 0 when every value is NaN (the label returned is then NaN).
idxmax(avgs) ==
    LET ok == {i \in 1..Len(avgs) : ~avgs[i].avg.nan}
    IN  IF ok = {} THEN 0
        ELSE CHOOSE i \in ok :
                /\ \A j \in ok : ~MeanLess(avgs[i].avg, avgs[j].avg)
                /\ \A j \in ok : j < i => MeanLess(avgs[j].avg, avgs[i].avg)

\* Series.idxmin(), likewise.
idxmin(avgs) ==
    LET ok == {i \in 1..Len(avgs) : ~avgs[i].avg.nan}
    IN  IF ok = {} THEN 0
        ELSE CHOOSE i \in ok :
                /\ \A j \in ok : ~MeanLess(avgs[j].avg, avgs[i].avg)
                /\ \A j \in ok : j < i => MeanLess(avgs[i].avg, avgs[j].avg)

\* The text of the title, by its parts.
TitleOf(kind, make, model, avg, best, best_avg, worst, worst_avg) ==
    [kind |-> kind, make |-> make, model |-> model, avg |-> avg,
     best |-> best, best_avg |-> best_avg, worst |-> worst, worst_avg |-> worst_avg]

\* Line 104.
StaticTitle == TitleOf("static", None, None, NaN, None, NaN, None, NaN)

\* Line 93: the best and the worst model are named when this holds.
HasBestWorst(model_averages) == Len(model_averages) > 1

\* Lines 82-104.  raised: when every mean is NaN, idxmax (line 94) has no
\* label to return: it raises, or returns NaN and model_averages[best_model]
\* (line 98) is a KeyError.  No title is built.
BuildTitle(d, selected_make, selected_model) ==
    IF selected_make # All
    THEN LET brand_data == SelectSeq2(d, "Make", selected_make)
             avg_rating == mean(RatingsOf(brand_data))
         IN  IF selected_model # All
             THEN LET model_data == SelectSeq2(brand_data, "Model", selected_model)
                  IN  [raised |-> FALSE,
                       title  |-> TitleOf("model", selected_make, selected_model,
                                          Format2f(mean(RatingsOf(model_data))),
                                          None, NaN, None, NaN)]
             ELSE LET model_averages == ModelAverages(brand_data)
                      best  == idxmax(model_averages)
                      worst == idxmin(model_averages)
                  IN  IF HasBestWorst(model_averages)
                      THEN IF best = 0
                           THEN [raised |-> TRUE, title |-> StaticTitle]
                           ELSE [raised |-> FALSE,
                                 title  |-> TitleOf("best_worst", selected_make, None,
                                                Format2f(avg_rating),
                                                model_averages[best].Model,
                                                Format1f(model_averages[best].avg),
                                                model_averages[worst].Model,
                                                Format1f(model_averages[worst].avg))]
                      ELSE [raised |-> FALSE,
                            title  |-> TitleOf("make", selected_make, None,
                                               Format2f(avg_rating),
                                               None, NaN, None, NaN)]
    ELSE [raised |-> FALSE, title |-> StaticTitle]

\* Lines 44-141: the figure returned (or the exception raised), and the
\* frame as the call leaves it.
create_car_ratings_plot(d, selected_make, selected_model) ==
    LET d1 == CoerceRating(d)
        t  == BuildTitle(d1, selected_make, selected_model)
    IN  [raised |-> t.raised,
         df     |-> d1,
         data   |-> Traces(d1, selected_make),
         title  |-> t.title]

(***************************************************************************)
(* The callbacks (lines 172-198) and the layout (lines 147-170).           *)
(***************************************************************************)
\* Line 157: the options of the make dropdown.
MakeOptions(d) == <<All>> \o sorted(unique(d, "Make"))

\* Options that forget the selected make.
update_model_dropdown_options_any_make(d, selected_make) ==
    <<All>> \o sorted(unique(d, "Model"))

\* Lines 178-182: the options returned.
update_model_dropdown_options(d, selected_make) ==
    IF selected_make = All
    THEN <<All>> \o sorted(unique(d, "Model"))
    ELSE <<All>> \o sorted(unique(SelectSeq2(d, "Make", selected_make), "Model"))

\* A value that leaves the model selection as it is.
update_model_dropdown_value_kept(selected_make) == selModel

\* Line 182: the value returned.
update_model_dropdown_value(selected_make) == All

\* Lines 193-196: the visibility of one trace after the model filter.
ModelFilter(trace, selected_model) ==
    IF selected_model # All /\ ~Contains(selected_model, trace.name)
    THEN [trace EXCEPT !.visible = "legendonly"]
    ELSE trace

\* Lines 189-198.
update_figure(d, selected_make, selected_model) ==
    LET fig == create_car_ratings_plot(d, selected_make, selected_model)
    IN  [fig EXCEPT !.data =
            [i \in 1..Len(fig.data) |-> ModelFilter(fig.data[i], selected_model)]]

\* Callbacks in the wrong order: the figure is computed
\* before the model dropdown is updated.
CallbacksFigureFirst(prop) ==
    IF prop = "model" THEN <<"update_figure">>
    ELSE <<"update_figure", "update_model_dropdown">>

\* The callbacks that a changed property sets off, in the order of their
\* dependencies: update_figure has model-dropdown.value as an Input, an
\* Output of update_model_dropdown, and so waits for it.
Callbacks(prop) ==
    IF prop = "model" THEN <<"update_figure">>
    ELSE <<"update_model_dropdown", "update_figure">>

\* The graph before its first figure (line 166).
NoFigure == [shown |-> FALSE, data |-> <<>>, title |-> StaticTitle]

Range(s) == {s[i] : i \in 1..Len(s)}

\* Lines 10-11, 147-170: the page as loaded; Dash then runs every callback.
Init ==
    /\ df \in Datasets
    /\ selMake = All
    /\ selModel = None
    /\ modelOptions = <<>>
    /\ figure = NoFigure
    /\ pending = Callbacks("load")
    /\ trigger = [prop |-> "load", old_model |-> None]

\* The user picks another make from the options of line 157.  A control
\* changes when the callbacks of the change before it have run.
SelectMake(make) ==
    /\ pending = <<>>
    /\ make \in Range(MakeOptions(df))
    /\ make # selMake
    /\ selMake' = make
    /\ pending' = Callbacks("make")
    /\ trigger' = [prop |-> "make", old_model |-> selModel]
    /\ UNCHANGED <<df, selModel, modelOptions, figure>>

\* The user picks another model from the options on offer.
SelectModel(model) ==
    /\ pending = <<>>
    /\ model \in Range(modelOptions)
    /\ model # selModel
    /\ selModel' = model
    /\ pending' = Callbacks("model")
    /\ trigger' = [prop |-> "model", old_model |-> selModel]
    /\ UNCHANGED <<df, selMake, modelOptions, figure>>

\* Lines 172-182.
RunUpdateModelDropdown ==
    /\ pending # <<>>
    /\ Head(pending) = "update_model_dropdown"
    /\ modelOptions' = update_model_dropdown_options(df, selMake)
    /\ selModel' = update_model_dropdown_value(selMake)
    /\ pending' = Tail(pending)
    /\ UNCHANGED <<df, selMake, figure, trigger>>

\* Lines 184-198.  A callback that raises updates no Output: the graph
\* keeps the figure it had.
RunUpdateFigure ==
    /\ pending # <<>>
    /\ Head(pending) = "update_figure"
    /\ LET r == update_figure(df, selMake, selModel)
       IN  /\ df' = r.df
           /\ figure' = IF r.raised THEN figure
                        ELSE [shown |-> TRUE, data |-> r.data, title |-> r.title]
    /\ pending' = Tail(pending)
    /\ UNCHANGED <<selMake, selModel, modelOptions, trigger>>

Next ==
    \/ \E make \in MakeNames \cup {All} : SelectMake(make)
    \/ \E model \in ModelNames \cup {All} : SelectModel(model)
    \/ RunUpdateModelDropdown
    \/ RunUpdateFigure

Spec == Init /\ [][Next]_vars

(***************************************************************************)
(* Properties.  Settled: no callback is waiting to run.  Drawn: settled,   *)
(* and the figure on display is the one update_figure returned for the     *)
(* selection (the call did not raise).                                     *)
(***************************************************************************)
Settled == pending = <<>>
Drawn == Settled /\ ~update_figure(df, selMake, selModel).raised

\* The rows of the selection (make, model), 'All' selecting every value.
Matching(make, model) ==
    {i \in 1..Len(df) : /\ make = All \/ df[i].Make = make
                        /\ model = All \/ df[i].Model = model}
\* Those of them whose rating is not missing.
Rated(make, model) == {i \in Matching(make, model) : df[i].Rating.kind = "num"}

RECURSIVE SumOver(_)
SumOver(I) ==
    IF I = {} THEN 0
    ELSE LET i == CHOOSE j \in I : TRUE IN df[i].Rating.val + SumOver(I \ {i})

Abs(n) == IF n < 0 THEN -n ELSE n

\* shown (a decimal in hundredths, or NaN) is the mean of the rated rows I
\* rounded to two places, ties to even; NaN when I is empty.
IsRoundedMean(shown, I) ==
    IF I = {} THEN shown = NaN
    ELSE LET err == Abs(shown.val * Cardinality(I) - SumOver(I))
         IN  /\ shown.kind = "num"
             /\ 2 * err <= Cardinality(I)
             /\ 2 * err = Cardinality(I) => shown.val % 2 = 0

\* C1: once update_model_dropdown has run, the model options are 'All'
\* followed by exactly the distinct models of the rows of the selected make
\* (of all rows for 'All'), in strictly ascending order, so none twice.
C1_ModelOptions ==
    "update_model_dropdown" \notin Range(pending) =>
        /\ Len(modelOptions) >= 1
        /\ modelOptions[1] = All
        /\ {modelOptions[i] : i \in 2..Len(modelOptions)}
              = {df[i].Model : i \in Matching(selMake, All)}
        /\ \A i, j \in 2..Len(modelOptions) :
              i < j => StrLess(modelOptions[i], modelOptions[j])

\* C1 witness: a make is selected whose two models stand in the data in
\* descending order, and the options list them after 'All'.
C1_Witness ==
    /\ Settled
    /\ selMake # All
    /\ Len(modelOptions) = 3
    /\ Len(df) >= 2
    /\ StrLess(df[2].Model, df[1].Model)

\* C2: after a change of make, once update_model_dropdown has run, the
\* model selection is 'All', whatever it was before.
C2_MakeResetsModel ==
    (trigger.prop = "make" /\ "update_model_dropdown" \notin Range(pending))
        => selModel = All

\* C2 witness: the make changed while a model was selected, and
\* update_model_dropdown has run.
C2_Witness ==
    /\ trigger.prop = "make"
    /\ trigger.old_model \in ModelNames
    /\ pending = <<"update_figure">>
    /\ selModel = All

\* C3 as stated: with a make selected, the average in the title equals the
\* sum of the non-missing ratings of the matching rows divided by their
\* number.
C3_AverageIsExactMean ==
    (Drawn /\ selMake # All /\ Rated(selMake, selModel) # {}) =>
        /\ figure.title.avg.kind = "num"
        /\ figure.title.avg.val * Cardinality(Rated(selMake, selModel))
              = SumOver(Rated(selMake, selModel))

\* C3 amended: with a make selected, the average in the title is the mean
\* of the non-missing ratings of the matching rows rounded to two decimal
\* places (nan when none has a rating); rows with a missing rating count
\* in neither the sum nor the divisor.
C3_AverageIsRoundedMean ==
    (Drawn /\ selMake # All) =>
        IsRoundedMean(figure.title.avg, Rated(selMake, selModel))

\* C3 witness: a make and a model are selected whose rows hold a rating
\* and a missing rating, and the title is on display.
C3_Witness ==
    /\ Drawn
    /\ selMake # All
    /\ selModel # All
    /\ figure.title.kind = "model"
    /\ Rated(selMake, selModel) # {}
    /\ Matching(selMake, selModel) \ Rated(selMake, selModel) # {}

\* C4: the figure on display holds exactly one series per distinct
\* (make, model) pair of the data, whatever the selection.
C4_OneSeriesPerPair ==
    figure.shown =>
        /\ Len(figure.data) = Cardinality({<<df[i].Make, df[i].Model>> : i \in 1..Len(df)})
        /\ {figure.data[i].name : i \in 1..Len(figure.data)}
              = {df[i].Make \o Sep \o df[i].Model : i \in 1..Len(df)}

\* C4 witness: a make and a model are selected, the data has two pairs and
\* one of the series is hidden by the filter.
C4_Witness ==
    /\ Drawn
    /\ selMake # All
    /\ selModel # All
    /\ Len(figure.data) = 2
    /\ \E i \in 1..Len(figure.data) : figure.data[i].visible = "legendonly"

\* The models of a make, and the exact mean of one of them as a fraction.
ModelsOf(make) == {df[i].Model : i \in Matching(make, All)}
\* Model a of the make has a higher mean than model b (both rated).
Higher(make, a, b) ==
    SumOver(Rated(make, a)) * Cardinality(Rated(make, b))
        > SumOver(Rated(make, b)) * Cardinality(Rated(make, a))
RatedModels(make) == {m \in ModelsOf(make) : Rated(make, m) # {}}
\* The first model, in ascending order, among those of highest mean.
IsBest(make, b) ==
    /\ b \in RatedModels(make)
    /\ \A m \in RatedModels(make) : ~Higher(make, m, b)
    /\ \A m \in RatedModels(make) :
          (m # b /\ ~Higher(make, b, m)) => StrLess(b, m)
IsWorst(make, w) ==
    /\ w \in RatedModels(make)
    /\ \A m \in RatedModels(make) : ~Higher(make, w, m)
    /\ \A m \in RatedModels(make) :
          (m # w /\ ~Higher(make, m, w)) => StrLess(w, m)

\* C5 as stated: whenever a make is selected and the model is 'All', the
\* title names the make's mean, the best model and the worst model, the
\* first in model order among ties.
C5_TitleNamesBestWorst ==
    (Settled /\ selMake # All /\ selModel = All) =>
        /\ figure.title.kind = "best_worst"
        /\ figure.title.make = selMake
        /\ IsBest(selMake, figure.title.best)
        /\ IsWorst(selMake, figure.title.worst)

\* C5 amended: with a make selected and the model 'All', the title names
\* the best and the worst model only when the make has more than one
\* model: then they are the models of highest and lowest mean among those
\* with a rating, the first in model order among ties, and when no model
\* of the make has a rating the call raises and the figure is not
\* replaced.  With one model the title gives the make's mean alone.
C5_TitleBestWorstIfSeveral ==
    (Settled /\ selMake # All /\ selModel = All) =>
        IF Cardinality(ModelsOf(selMake)) > 1
        THEN IF RatedModels(selMake) = {}
             THEN update_figure(df, selMake, selModel).raised
             ELSE /\ Drawn
                  /\ figure.title.kind = "best_worst"
                  /\ figure.title.make = selMake
                  /\ IsRoundedMean(figure.title.avg, Rated(selMake, All))
                  /\ IsBest(selMake, figure.title.best)
                  /\ IsWorst(selMake, figure.title.worst)
        ELSE /\ Drawn
             /\ figure.title.kind = "make"
             /\ figure.title.make = selMake
             /\ IsRoundedMean(figure.title.avg, Rated(selMake, All))

\* C5 witness: a make is selected whose two models have the same mean, and
\* the title names the first of them as best.
C5_Witness ==
    /\ Drawn
    /\ selMake # All
    /\ selModel = All
    /\ figure.title.kind = "best_worst"
    /\ \E a, b \in RatedModels(selMake) :
          /\ a # b
          /\ ~Higher(selMake, a, b)
          /\ ~Higher(selMake, b, a)
          /\ StrLess(a, b)
          /\ figure.title.best = a

\* C6: the legend is the same for every make selection: every series of
\* the data, those of another make included, has its legend entry.
C6_LegendStable ==
    Drawn =>
        {figure.data[i].name : i \in {j \in 1..Len(figure.data) : figure.data[j].showlegend}}
            = {df[i].Make \o Sep \o df[i].Model : i \in 1..Len(df)}

\* C7: once the callbacks set off by the last change have run, the chart
\* on display is the one update_figure computes for the current selection.
C7_DisplayedIsCurrent ==
    Settled =>
        LET r == update_figure(df, selMake, selModel)
        IN  /\ ~r.raised
            /\ figure = [shown |-> TRUE, data |-> r.data, title |-> r.title]

\* C8: the data is read-only after load: no step changes any field of any
\* row.
C8_DatasetReadOnly == [][df' = df]_vars

\* C9: in the figure returned for selection (M, m), the series of pair
\* (k, d) is fully visible exactly when (M is 'All' or k = M) and (m is
\* 'All' or d = m); every other series is 'legendonly'.
C9_VisibleIffSelected ==
    Drawn =>
        \A i \in 1..Len(figure.data) :
            LET key == GroupKeys(df)[i]
            IN  /\ figure.data[i].visible \in {"True", "legendonly"}
                /\ figure.data[i].visible = "True" <=>
                      /\ selMake = All \/ key[1] = selMake
                      /\ selModel = All \/ key[2] = selModel

\* C10: whenever update_figure is about to run, the selected model is
\* 'All' or a model that the data holds for the selected make (for any
\* make when the make is 'All').
C10_ModelBelongsToMake ==
    (pending # <<>> /\ Head(pending) = "update_figure") =>
        \/ selModel = All
        \/ \E i \in Matching(selMake, All) : df[i].Model = selModel

\* C10 witness: the make changed while a model was selected that the new
\* make does not have, and update_figure is about to run.
C10_Witness ==
    /\ pending = <<"update_figure">>
    /\ trigger.prop = "make"
    /\ trigger.old_model \in ModelNames
    /\ selMake # All
    /\ \A i \in Matching(selMake, All) : df[i].Model # trigger.old_model
====
